---- MODULE Spec2Model ----
(***************************************************************************)
(* Pickleball Analytics API (src/main.py, src/schemas.py).                 *)
(*                                                                         *)
(* State: the database handle `db` (None or a client), the three           *)
(* collections db["player"], db["match"], db["point"] in insertion order,  *)
(* and `last`, the last request together with the response its handler     *)
(* produced.  `codec` is the position of the identifier-codec round trip   *)
(* (oid, then str as to_serializable applies it) used by SpecCodec.        *)
(*                                                                         *)
(* Values.  A Python str that carries an identifier is a sequence of       *)
(* one-character strings; an ObjectId is the sequence of its bytes.  An     *)
(* Optional[str] is the string itself or None ("None"); an optional        *)
(* datetime or float is <<>> (None) or <<v>>.  A document is a record      *)
(* whose DOMAIN is the set of fields present, so "field absent" and        *)
(* "field present with null" are different documents.                      *)
(*                                                                         *)
(* Fields that no handler reads or decides on (rating, handedness,         *)
(* location, level, completed_at, unforced_error, notes) are carried       *)
(* through unchanged by the code and are left out of the documents.        *)
(***************************************************************************)
EXTENDS Integers, Sequences, FiniteSets, TLC

VARIABLES db, player, match, point, last, codec

vars == <<db, player, match, point, last, codec>>

None == "None"

NoneT == <<>>

-----------------------------------------------------------------------------
(* Bounds.                                                                 *)

\* Bytes of an ObjectId (12 in bson, 24 hexadecimal characters); scaled.
OidBytes == 2

\* Caps on the number of stored documents, per specification.
MaxDocs == 3

RecentMaxPlayers == 1

RecentMaxMatches == 3

BoardMaxPlayers == 1

BoardMaxPoints == 3

ShotsMaxDocs == 3

AnMaxDocs == 3

PtMaxPoints == 2

OidStrLen == 2 * OidBytes

-----------------------------------------------------------------------------
(* Identifier codec: bson.ObjectId(str), str(ObjectId), oid.               *)

HexLower == <<"0","1","2","3","4","5","6","7","8","9","a","b","c","d","e","f">>

HexUpper == <<"0","1","2","3","4","5","6","7","8","9","A","B","C","D","E","F">>

\* Digit value of a character, -1 when it is no hexadecimal digit.
HexVal(c) ==
    IF \E i \in 1..16 : HexLower[i] = c
    THEN (CHOOSE i \in 1..16 : HexLower[i] = c) - 1
    ELSE IF \E i \in 1..16 : HexUpper[i] = c
    THEN (CHOOSE i \in 1..16 : HexUpper[i] = c) - 1
    ELSE -1

IsSpace(c) == c \in {" "}

\* bytes.fromhex from position i on: ASCII whitespace between bytes is
\* skipped, a byte is two hexadecimal digits of either case.
RECURSIVE fromhexAt(_, _, _)
fromhexAt(s, i, acc) ==
    IF i > Len(s) THEN [ok |-> TRUE, v |-> acc]
    ELSE IF IsSpace(s[i]) THEN fromhexAt(s, i + 1, acc)
    ELSE IF i + 1 > Len(s) \/ HexVal(s[i]) < 0 \/ HexVal(s[i + 1]) < 0
    THEN [ok |-> FALSE, v |-> <<>>]
    ELSE fromhexAt(s, i + 2, Append(acc, 16 * HexVal(s[i]) + HexVal(s[i + 1])))

fromhex(s) == fromhexAt(s, 1, <<>>)

\* ObjectId(oid_str) for a str: the length is checked, then bytes.fromhex;
\* ok = FALSE stands for the InvalidId exception.
ObjectId(s) ==
    IF Len(s) = OidStrLen THEN fromhex(s) ELSE [ok |-> FALSE, v |-> <<>>]

\* Mutant: the digits come out in upper case.
strUpper(o) ==
    [i \in 1..(2 * Len(o)) |->
        IF i % 2 = 1 THEN HexUpper[(o[(i + 1) \div 2] \div 16) + 1]
                     ELSE HexUpper[(o[i \div 2] % 16) + 1]]

\* str(ObjectId): lowercase hexadecimal, two digits per byte.
str(o) ==
    [i \in 1..(2 * Len(o)) |->
        IF i % 2 = 1 THEN HexLower[(o[(i + 1) \div 2] \div 16) + 1]
                     ELSE HexLower[(o[i \div 2] % 16) + 1]]

\* oid: ok = FALSE stands for HTTPException(400, "Invalid ObjectId format").
oid(oid_str) == ObjectId(oid_str)

\* Fields whose stored value is an ObjectId (isinstance(v, ObjectId)).
OidFields == {"player_a_id", "player_b_id", "match_id", "scorer_id"}

to_serializable(doc) ==
    LET d1 == IF "_id" \in DOMAIN doc
              THEN [k \in (DOMAIN doc \ {"_id"}) \cup {"id"} |->
                        IF k = "id" THEN str(doc["_id"]) ELSE doc[k]]
              ELSE doc
    IN  [k \in DOMAIN d1 |-> IF k \in OidFields THEN str(d1[k]) ELSE d1[k]]

-----------------------------------------------------------------------------
(* The database: fresh identifiers, BSON ordering, lookups.                *)

\* The ObjectId insert_one gives the n-th document of a collection: fresh,
\* and increasing with insertion order within the collection.
NewObjectId(tag, n) ==
    [i \in 1..OidBytes |->
        IF i = OidBytes THEN n ELSE IF i = OidBytes - 1 THEN tag ELSE 0]

\* BSON order of ObjectIds: bytewise, most significant byte first.
OidLess(a, b) ==
    \E i \in 1..Len(a) :
        /\ i <= Len(b)
        /\ a[i] < b[i]
        /\ \A j \in 1..(i - 1) : a[j] = b[j]

\* BSON order of an optional datetime: null sorts before every date.
TimeLess(x, y) ==
    IF x = NoneT THEN y # NoneT
    ELSE y # NoneT /\ x[1] < y[1]

Range(s) == {s[i] : i \in 1..Len(s)}

Min(a, b) == IF a < b THEN a ELSE b

\* find_one({"_id": id}) on db["player"], then .get("name") or None.
PlayerName(id) ==
    IF \E i \in 1..Len(player) : player[i]["_id"] = id
    THEN player[CHOOSE i \in 1..Len(player) : player[i]["_id"] = id].name
    ELSE None

Error(op, args, status, detail) ==
    [op |-> op, args |-> args, status |-> status, detail |-> detail, body |-> <<>>]

Ok(op, args, body) ==
    [op |-> op, args |-> args, status |-> 200, detail |-> "", body |-> body]

NoDb(op, args) == Error(op, args, 500, "Database not configured")

BadId(op, args) == Error(op, args, 400, "Invalid ObjectId format")

Invalid(op, args) == Error(op, args, 422, "validation error")

\* insert_one(data): the document gets a fresh _id and is appended.
insert_one(coll, tag, data) ==
    Append(coll, ("_id" :> NewObjectId(tag, Len(coll) + 1)) @@ data)

\* create_document(collection_name, data): insert, the id comes back as str.
create_document(coll, tag, data) == insert_one(coll, tag, data)

\* get_documents(collection_name): every document of the collection.
get_documents(coll) == coll

inserted_id(coll) == coll[Len(coll)]["_id"]

-----------------------------------------------------------------------------
(* Players.                                                                *)

create_player(name) ==
    LET args == [name |-> name]
        docs == create_document(player, 10, [name |-> name])
    IN  /\ last' = IF db = None THEN NoDb("create_player", args)
                   ELSE Ok("create_player", args, [id |-> str(inserted_id(docs))])
        /\ player' = IF db = None THEN player ELSE docs
        /\ UNCHANGED <<db, match, point, codec>>

list_players ==
    LET docs == get_documents(player)
    IN  /\ last' = IF db = None THEN NoDb("list_players", <<>>)
                   ELSE Ok("list_players", <<>>,
                           [i \in 1..Len(docs) |-> to_serializable(docs[i])])
        /\ UNCHANGED <<db, player, match, point, codec>>

-----------------------------------------------------------------------------
(* Matches.                                                                *)

\* Mutant: player_b_id is stored as sent, never decoded.
create_match_unchecked_b(player_a_id, player_b_id, started_at) ==
    LET args == [player_a_id |-> player_a_id, player_b_id |-> player_b_id,
                 started_at |-> started_at]
        a == oid(player_a_id)
        data == [player_a_id |-> a.v, player_b_id |-> player_b_id,
                 started_at |-> started_at]
        docs == insert_one(match, 11, data)
        done == db # None /\ a.ok
    IN  /\ last' = IF db = None THEN NoDb("create_match", args)
                   ELSE IF ~a.ok THEN BadId("create_match", args)
                   ELSE Ok("create_match", args, [id |-> str(inserted_id(docs))])
        /\ match' = IF done THEN docs ELSE match
        /\ UNCHANGED <<db, player, point, codec>>

create_match(player_a_id, player_b_id, started_at) ==
    LET args == [player_a_id |-> player_a_id, player_b_id |-> player_b_id,
                 started_at |-> started_at]
        a == oid(player_a_id)
        b == oid(player_b_id)
        data == [player_a_id |-> a.v, player_b_id |-> b.v,
                 started_at |-> started_at]
        docs == insert_one(match, 11, data)
        done == db # None /\ a.ok /\ b.ok
    IN  /\ last' = IF db = None THEN NoDb("create_match", args)
                   ELSE IF ~a.ok THEN BadId("create_match", args)
                   ELSE IF ~b.ok THEN BadId("create_match", args)
                   ELSE Ok("create_match", args, [id |-> str(inserted_id(docs))])
        /\ match' = IF done THEN docs ELSE match
        /\ UNCHANGED <<db, player, point, codec>>

\* Mutant: ties on started_at are broken by ascending _id.
MatchBeforeAscendingId(x, y) ==
    \/ TimeLess(y.started_at, x.started_at)
    \/ /\ x.started_at = y.started_at
       /\ OidLess(x["_id"], y["_id"])

\* x comes before y under {"$sort": {"started_at": -1, "_id": -1}}.
MatchBefore(x, y) ==
    \/ TimeLess(y.started_at, x.started_at)
    \/ /\ x.started_at = y.started_at
       /\ OidLess(y["_id"], x["_id"])

InsertMatch(sorted, m) ==
    LET k == Cardinality({i \in 1..Len(sorted) : MatchBefore(sorted[i], m)})
    IN  SubSeq(sorted, 1, k) \o <<m>> \o SubSeq(sorted, k + 1, Len(sorted))

RECURSIVE SortStage(_)
SortStage(docs) ==
    IF docs = <<>> THEN <<>>
    ELSE InsertMatch(SortStage(SubSeq(docs, 1, Len(docs) - 1)), docs[Len(docs)])

\* {"$limit": limit}
LimitStage(docs, limit) == SubSeq(docs, 1, Min(limit, Len(docs)))

\* $lookup from "player" into `as`, $unwind keeping the document when the
\* array is empty, $project of "$<as>.name": the name, or no field at all.
HasPlayer(id) == \E i \in 1..Len(player) : player[i]["_id"] = id

ProjectMatch(m) ==
    LET fields == {"_id", "started_at"}
                  \cup (IF HasPlayer(m.player_a_id) THEN {"player_a"} ELSE {})
                  \cup (IF HasPlayer(m.player_b_id) THEN {"player_b"} ELSE {})
    IN  [k \in fields |->
            CASE k = "_id" -> m["_id"]
              [] k = "started_at" -> m.started_at
              [] k = "player_a" -> PlayerName(m.player_a_id)
              [] k = "player_b" -> PlayerName(m.player_b_id)]

\* Mutant: $unwind without preserveNullAndEmptyArrays drops a match whose
\* player is not found.
RecentPipelineNoPreserve(limit) ==
    LET docs == SelectSeq(LimitStage(SortStage(match), limit),
                          LAMBDA m : HasPlayer(m.player_a_id) /\ HasPlayer(m.player_b_id))
    IN  [i \in 1..Len(docs) |-> ProjectMatch(docs[i])]

RecentPipeline(limit) ==
    LET docs == LimitStage(SortStage(match), limit)
    IN  [i \in 1..Len(docs) |-> ProjectMatch(docs[i])]

recent_matches(limit) ==
    LET args == [limit |-> limit]
        rows == RecentPipeline(limit)
    IN  /\ last' = IF db = None THEN NoDb("recent_matches", args)
                   ELSE Ok("recent_matches", args,
                           [i \in 1..Len(rows) |-> to_serializable(rows[i])])
        /\ UNCHANGED <<db, player, match, point, codec>>

-----------------------------------------------------------------------------
(* Points.                                                                 *)

Shots == {"serve", "return", "drive", "drop", "dink", "lob", "volley",
          "smash", "other"}

\* Mutant: ge=0 for rally_length.
PointValidFromZero(rally_length, winner_shot) ==
    /\ rally_length >= 0
    /\ rally_length <= 100
    /\ winner_shot \in Shots \cup {None}

\* schemas.Point: rally_length ge=1 le=100, winner_shot Optional[Literal].
PointValid(rally_length, winner_shot) ==
    /\ rally_length >= 1
    /\ rally_length <= 100
    /\ winner_shot \in Shots \cup {None}

create_point(match_id, scorer_id, rally_length, winner_shot) ==
    LET args == [match_id |-> match_id, scorer_id |-> scorer_id,
                 rally_length |-> rally_length, winner_shot |-> winner_shot]
        m == oid(match_id)
        s == oid(scorer_id)
        dumped == [match_id |-> m.v, scorer_id |-> s.v,
                   rally_length |-> rally_length, winner_shot |-> winner_shot]
        data == IF dumped.winner_shot = None
                THEN [k \in DOMAIN dumped \ {"winner_shot"} |-> dumped[k]]
                ELSE dumped
        docs == insert_one(point, 12, data)
        done == PointValid(rally_length, winner_shot) /\ db # None /\ m.ok /\ s.ok
    IN  /\ last' = IF ~PointValid(rally_length, winner_shot)
                   THEN Invalid("create_point", args)
                   ELSE IF db = None THEN NoDb("create_point", args)
                   ELSE IF ~m.ok THEN BadId("create_point", args)
                   ELSE IF ~s.ok THEN BadId("create_point", args)
                   ELSE Ok("create_point", args, [id |-> str(inserted_id(docs))])
        /\ point' = IF done THEN docs ELSE point
        /\ UNCHANGED <<db, player, match, codec>>

-----------------------------------------------------------------------------
(* Analytics.                                                              *)

\* Indices of the documents of db["point"].
Points == 1..Len(point)

RECURSIVE SumRally(_)
SumRally(idx) ==
    IF idx = {} THEN 0
    ELSE LET i == CHOOSE j \in idx : TRUE
         IN  point[i].rally_length + SumRally(idx \ {i})

\* {"$avg": "$rally_length"} over a non-empty group, as the exact quotient
\* num / den.
Avg(idx) == [num |-> SumRally(idx), den |-> Cardinality(idx)]

\* $group by scorer_id, $lookup/$unwind of the player, $project: the row of
\* one scorer.  $project keeps _id; name is there only when a player matches.
GroupRow(scorer) ==
    LET idx == {i \in Points : point[i].scorer_id = scorer}
        fields == {"_id", "player_id", "points_won", "avg_rally"}
                  \cup (IF HasPlayer(scorer) THEN {"name"} ELSE {})
    IN  [k \in fields |->
            CASE k = "_id" -> scorer
              [] k = "player_id" -> str(scorer)
              [] k = "points_won" -> Cardinality(idx)
              [] k = "avg_rally" -> Avg(idx)
              [] k = "name" -> PlayerName(scorer)]

GroupStage == {GroupRow(p.scorer_id) : p \in Range(point)}

\* {"$sort": {"points_won": -1}}: the order of rows with equal points_won is
\* not determined, so every order with non-increasing points_won can come out.
\* Mutant: {"$sort": {"points_won": 1}}.
SortedByPointsWonAscending(rows) ==
    \A i, j \in 1..Len(rows) : i < j => rows[i].points_won <= rows[j].points_won

SortedByPointsWon(rows) ==
    \A i, j \in 1..Len(rows) : i < j => rows[i].points_won >= rows[j].points_won

BoardOrders ==
    LET n == Cardinality(GroupStage)
    IN  {rows \in [1..n -> GroupStage] :
            /\ \A i, j \in 1..n : i # j => rows[i] # rows[j]
            /\ SortedByPointsWon(rows)}

leaderboard(limit) ==
    LET args == [limit |-> limit]
    IN  /\ \E rows \in BoardOrders :
               last' = IF db = None THEN NoDb("leaderboard", args)
                       ELSE Ok("leaderboard", args, LimitStage(rows, limit))
        /\ UNCHANGED <<db, player, match, point, codec>>

\* find({"$or": [{"player_a_id": id}, {"player_b_id": id}]}) on db["match"].
MatchesOf(id) ==
    SelectSeq(match, LAMBDA m : m.player_a_id = id \/ m.player_b_id = id)

\* Mutant: the shot pipeline is not restricted to the player's matches.
ShotDistributionAllMatches(match_ids, id) ==
    LET idx == {i \in Points : /\ point[i].scorer_id = id
                                /\ "winner_shot" \in DOMAIN point[i]}
        keys == {point[i].winner_shot : i \in idx} \ {None, ""}
    IN  [k \in keys |-> Cardinality({i \in idx : point[i].winner_shot = k})]

ShotDistribution(match_ids, id) ==
    LET idx == {i \in Points : /\ point[i].match_id \in match_ids
                                /\ point[i].scorer_id = id
                                /\ "winner_shot" \in DOMAIN point[i]}
        keys == {point[i].winner_shot : i \in idx} \ {None, ""}
    IN  [k \in keys |-> Cardinality({i \in idx : point[i].winner_shot = k})]

\* Mutant: no early return, and points won are counted over all matches.
AnalyticsUnscopedWon(id) ==
    LET matches == MatchesOf(id)
        match_ids == {matches[i]["_id"] : i \in 1..Len(matches)}
        won == {i \in Points : point[i].scorer_id = id}
        lost == {i \in Points : point[i].match_id \in match_ids /\ point[i].scorer_id # id}
        all == {i \in Points : point[i].match_id \in match_ids}
    IN  [player |-> PlayerName(id),
         totals |-> [points_won |-> Cardinality(won),
                     points_lost |-> Cardinality(lost),
                     avg_rally |-> IF all = {} THEN NoneT ELSE <<Avg(all)>>],
         shot_distribution |-> ShotDistribution(match_ids, id),
         matches |-> Len(matches)]

\* Mutant: the average rally is taken over the player's own points only.
AnalyticsAvgOfWon(id) ==
    LET matches == MatchesOf(id)
        match_ids == {matches[i]["_id"] : i \in 1..Len(matches)}
        won == {i \in Points : point[i].match_id \in match_ids /\ point[i].scorer_id = id}
        lost == {i \in Points : point[i].match_id \in match_ids /\ point[i].scorer_id # id}
    IN  IF match_ids = {}
        THEN [player |-> PlayerName(id),
              totals |-> [points_won |-> 0, points_lost |-> 0, avg_rally |-> NoneT],
              shot_distribution |-> <<>>,
              matches |-> 0]
        ELSE [player |-> PlayerName(id),
              totals |-> [points_won |-> Cardinality(won),
                          points_lost |-> Cardinality(lost),
                          avg_rally |-> IF won = {} THEN NoneT ELSE <<Avg(won)>>],
              shot_distribution |-> ShotDistribution(match_ids, id),
              matches |-> Len(matches)]

Analytics(id) ==
    LET matches == MatchesOf(id)
        match_ids == {matches[i]["_id"] : i \in 1..Len(matches)}
        won == {i \in Points : point[i].match_id \in match_ids /\ point[i].scorer_id = id}
        lost == {i \in Points : point[i].match_id \in match_ids /\ point[i].scorer_id # id}
        all == {i \in Points : point[i].match_id \in match_ids}
    IN  IF match_ids = {}
        THEN [player |-> PlayerName(id),
              totals |-> [points_won |-> 0, points_lost |-> 0, avg_rally |-> NoneT],
              shot_distribution |-> <<>>,
              matches |-> 0]
        ELSE [player |-> PlayerName(id),
              totals |-> [points_won |-> Cardinality(won),
                          points_lost |-> Cardinality(lost),
                          avg_rally |-> IF all = {} THEN NoneT ELSE <<Avg(all)>>],
              shot_distribution |-> ShotDistribution(match_ids, id),
              matches |-> Len(matches)]

\* Mutant: the identifier is decoded before the database is checked.
player_analytics_oid_first(player_id) ==
    LET args == [player_id |-> player_id]
        player_oid == oid(player_id)
    IN  /\ last' = IF ~player_oid.ok THEN BadId("player_analytics", args)
                   ELSE IF db = None THEN NoDb("player_analytics", args)
                   ELSE Ok("player_analytics", args, Analytics(player_oid.v))
        /\ UNCHANGED <<db, player, match, point, codec>>

player_analytics(player_id) ==
    LET args == [player_id |-> player_id]
        player_oid == oid(player_id)
    IN  /\ last' = IF db = None THEN NoDb("player_analytics", args)
                   ELSE IF ~player_oid.ok THEN BadId("player_analytics", args)
                   ELSE Ok("player_analytics", args, Analytics(player_oid.v))
        /\ UNCHANGED <<db, player, match, point, codec>>

-----------------------------------------------------------------------------
(* The codec round trip: oid, then str as to_serializable applies it.      *)

codec_idle == [pc |-> "idle", s |-> <<>>, r |-> [ok |-> FALSE, v |-> <<>>], t |-> <<>>]

codec_decode ==
    /\ codec.pc = "input"
    /\ codec' = [codec EXCEPT !.pc = "decoded", !.r = oid(codec.s)]
    /\ UNCHANGED <<db, player, match, point, last>>

codec_encode ==
    /\ codec.pc = "decoded"
    /\ codec.r.ok
    /\ codec' = [codec EXCEPT !.pc = "encoded",
                              !.t = to_serializable([m \in {"_id"} |-> codec.r.v]).id]
    /\ UNCHANGED <<db, player, match, point, last>>

-----------------------------------------------------------------------------
(* Request inputs.                                                         *)

PlayerIdStr(n) == str(NewObjectId(10, n))

MatchIdStr(n) == str(NewObjectId(11, n))

Upper(s) ==
    [i \in 1..Len(s) |->
        IF \E k \in 1..16 : HexLower[k] = s[i]
        THEN HexUpper[CHOOSE k \in 1..16 : HexLower[k] = s[i]]
        ELSE s[i]]

BadChar(s) == [s EXCEPT ![Len(s)] = "g"]

Short(s) == SubSeq(s, 1, Len(s) - 1)

\* Identifier strings of the requests of Spec: players' identifiers in lower
\* and upper case, one with a non-hexadecimal character, one too short.
IdsA == {PlayerIdStr(1), Upper(PlayerIdStr(2)), BadChar(PlayerIdStr(1))}

IdsB == {PlayerIdStr(1), PlayerIdStr(2), Short(PlayerIdStr(2))}

MatchIds == {MatchIdStr(1), BadChar(MatchIdStr(1))}

RecentTimes == {NoneT, <<1>>, <<2>>, <<3>>}

\* Characters of the strings the codec is tried on: lower- and upper-case
\* hexadecimal digits, a non-hexadecimal letter and whitespace.
Chars == {"0", "a", "A", "g", " "}

Strings == UNION {[1..n -> Chars] : n \in 0..(OidStrLen + 1)}

-----------------------------------------------------------------------------
(* Specifications.                                                         *)

NoRequest == [op |-> "none", args |-> <<>>, status |-> 0, detail |-> "", body |-> <<>>]

Empty ==
    /\ player = <<>>
    /\ match = <<>>
    /\ point = <<>>
    /\ last = NoRequest

Docs == Len(player) + Len(match) + Len(point)

\* The whole API, with or without a database, with malformed identifiers.
Init ==
    /\ db \in {None, "client"}
    /\ Empty
    /\ codec = codec_idle

Next ==
    \/ Docs < MaxDocs /\ create_player("Ann")
    \/ list_players
    \/ \E a \in IdsA, b \in IdsB : Docs < MaxDocs /\ create_match(a, b, NoneT)
    \/ \E limit \in {1, MaxDocs} : recent_matches(limit)
    \/ \E m \in MatchIds, s \in IdsB :
           Docs < MaxDocs /\ create_point(m, s, 1, "dink")
    \/ \E limit \in {1, MaxDocs} : leaderboard(limit)
    \/ \E id \in IdsA : player_analytics(id)

Spec == Init /\ [][Next]_vars

InitDb ==
    /\ db = "client"
    /\ Empty
    /\ codec = codec_idle

\* Matches and their listing.
NextRecent ==
    \/ Len(player) < RecentMaxPlayers /\ create_player("Ann")
    \/ \E t \in RecentTimes :
           Len(match) < RecentMaxMatches
               /\ create_match(PlayerIdStr(1), PlayerIdStr(2), t)
    \/ \E limit \in 1..(RecentMaxMatches + 1) : recent_matches(limit)

SpecRecent == InitDb /\ [][NextRecent]_vars

\* Points and the leaderboard.
NextBoard ==
    \/ Len(player) < BoardMaxPlayers /\ create_player("Ann")
    \/ \E s \in {PlayerIdStr(1), PlayerIdStr(2), PlayerIdStr(3)}, r \in {1, 3} :
           Len(point) < BoardMaxPoints /\ create_point(MatchIdStr(1), s, r, None)
    \/ \E limit \in 1..(BoardMaxPoints + 1) : leaderboard(limit)

SpecBoard == InitDb /\ [][NextBoard]_vars

\* Winner shots and the analytics of a player.
NextShots ==
    \/ Docs < ShotsMaxDocs /\ create_player("Ann")
    \/ \E a, b \in {PlayerIdStr(1), PlayerIdStr(2)} :
           Docs < ShotsMaxDocs /\ create_match(a, b, NoneT)
    \/ \E s \in {PlayerIdStr(1), PlayerIdStr(2)}, shot \in {None, "dink", "lob"} :
           Docs < ShotsMaxDocs /\ create_point(MatchIdStr(1), s, 1, shot)
    \/ \E id \in {PlayerIdStr(1), PlayerIdStr(2)} : player_analytics(id)

SpecShots == InitDb /\ [][NextShots]_vars

\* Matches, points and the totals of a player.
NextAnalytics ==
    \/ \E a, b \in {PlayerIdStr(1), PlayerIdStr(2)} :
           Docs < AnMaxDocs /\ create_match(a, b, NoneT)
    \/ \E m \in {MatchIdStr(1), MatchIdStr(2)},
          s \in {PlayerIdStr(1), PlayerIdStr(2)}, r \in {1, 4} :
           Docs < AnMaxDocs /\ create_point(m, s, r, None)
    \/ \E id \in {PlayerIdStr(1), PlayerIdStr(2)} : player_analytics(id)

SpecAnalytics == InitDb /\ [][NextAnalytics]_vars

\* Point creation with every kind of rally_length and winner_shot.
NextPoints ==
    \E m \in MatchIds, s \in {PlayerIdStr(1)},
       r \in {0, 1, 100, 101}, shot \in {None, "dink", "lob", "spin"} :
        Len(point) < PtMaxPoints /\ create_point(m, s, r, shot)

SpecPoints == InitDb /\ [][NextPoints]_vars

\* The codec on every string over Chars of up to OidStrLen + 1 characters.
InitCodec ==
    /\ db = "client"
    /\ Empty
    /\ codec \in {[codec_idle EXCEPT !.pc = "input", !.s = x] : x \in Strings}

NextCodec == codec_decode \/ codec_encode

SpecCodec == InitCodec /\ [][NextCodec]_vars
-----------------------------------------------------------------------------
(* Properties.                                                             *)

Collections == <<player, match, point>>

\* The decoder raises on the string: the identifier is malformed.
Malformed(s) == ~ObjectId(s).ok

\* The identifier-typed fields of a request.
IdArgs(l) ==
    CASE l.op = "create_match" -> {l.args.player_a_id, l.args.player_b_id}
      [] l.op = "create_point" -> {l.args.match_id, l.args.scorer_id}
      [] l.op = "player_analytics" -> {l.args.player_id}
      [] OTHER -> {}

DbOps == {"create_player", "list_players", "create_match", "recent_matches",
          "create_point", "leaderboard", "player_analytics"}

\* C1: with no database configured, every request to the seven endpoints
\* ends in 500 "Database not configured", malformed identifiers included,
\* and nothing is ever stored.
C1_NoDatabase ==
    db = None =>
        /\ last.op \in DbOps =>
               last.status = 500 /\ last.detail = "Database not configured"
        /\ Collections = <<<<>>, <<>>, <<>>>>

C1_Witness ==
    /\ db = None
    /\ last.op = "player_analytics"
    /\ Malformed(last.args.player_id)
    /\ last.status = 500

Stored(id) == \E i \in 1..Len(player) : player[i]["_id"] = id

RowsWith(rows, field, value) ==
    {k \in 1..Len(rows) : rows[k][field] = value}

\* C8: identifiers that resolve to no stored record are accepted by Create
\* Match and Create Point, and the read paths keep their rows: Recent
\* Matches lists such a match once with the name absent, Leaderboard lists
\* such a scorer with the name absent and its points, Player Analytics
\* answers with player = null.
C8_Orphans ==
    db # None =>
        /\ (last.op \in {"create_match", "create_point"}
                /\ \A s \in IdArgs(last) : ~Malformed(s))
               => last.status = 200
        /\ last.op = "recent_matches" =>
               /\ last.status = 200
               /\ Len(last.body) = Min(last.args.limit, Len(match))
               /\ \A i \in 1..Len(match) :
                      LET rows == RowsWith(last.body, "id", str(match[i]["_id"]))
                      IN  /\ Cardinality(rows) <= 1
                          /\ last.args.limit >= Len(match) => Cardinality(rows) = 1
                          /\ \A k \in rows :
                                 /\ "player_a" \in DOMAIN last.body[k]
                                        <=> Stored(match[i].player_a_id)
                                 /\ "player_b" \in DOMAIN last.body[k]
                                        <=> Stored(match[i].player_b_id)
        /\ last.op = "leaderboard" =>
               /\ last.status = 200
               /\ \A i \in 1..Len(point) :
                      LET s == point[i].scorer_id
                          rows == RowsWith(last.body, "player_id", str(s))
                          n == Cardinality({j \in 1..Len(point) : point[j].scorer_id = s})
                      IN  /\ Cardinality(rows) <= 1
                          /\ last.args.limit >= Len(point) => Cardinality(rows) = 1
                          /\ \A k \in rows :
                                 /\ "name" \in DOMAIN last.body[k] <=> Stored(s)
                                 /\ last.body[k].points_won = n
        /\ (last.op = "player_analytics" /\ ~Malformed(last.args.player_id)) =>
               /\ last.status = 200
               /\ ~Stored(ObjectId(last.args.player_id).v) => last.body.player = None

C8_Witness ==
    /\ last.op = "recent_matches"
    /\ Len(player) = 1
    /\ Len(match) = 1
    /\ match[1].player_a_id = player[1]["_id"]
    /\ ~Stored(match[1].player_b_id)
    /\ Len(last.body) = 1
    /\ last.body[1].player_a = "Ann"
    /\ "player_b" \notin DOMAIN last.body[1]

\* Position in insertion order of the stored match a row is the summary of
\* (0 when there is none).
MatchOfRow(row) ==
    IF \E i \in 1..Len(match) : str(match[i]["_id"]) = row.id
    THEN CHOOSE i \in 1..Len(match) : str(match[i]["_id"]) = row.id
    ELSE 0

\* Recency of a start time: a match with no started_at is the least recent.
Recency(t) == IF t = NoneT THEN 0 ELSE t[1]

\* C4: Recent Matches with limit N returns min(N, stored matches) summaries,
\* each of a different stored match, by started_at descending and, on equal
\* started_at, the later inserted match (the greater identifier) first; no
\* match left out is more recent than one returned.
C4_RecentMatches ==
    (last.op = "recent_matches" /\ last.status = 200) =>
        LET rows == last.body
            at(k) == MatchOfRow(rows[k])
            key(k) == Recency(match[at(k)].started_at)
        IN  /\ Len(rows) = Min(last.args.limit, Len(match))
            /\ \A k \in 1..Len(rows) :
                   /\ at(k) # 0
                   /\ rows[k].started_at = match[at(k)].started_at
            /\ \A k, l \in 1..Len(rows) : k < l =>
                   /\ at(k) # at(l)
                   /\ key(k) >= key(l)
                   /\ key(k) = key(l) =>
                          /\ at(k) > at(l)
                          /\ OidLess(match[at(l)]["_id"], match[at(k)]["_id"])
            /\ \A i \in 1..Len(match), k \in 1..Len(rows) :
                   (\A l \in 1..Len(rows) : at(l) # i)
                       => Recency(match[i].started_at) <= key(k)

\* Three matches started at 1 < 2 < 3, limit 2: exactly [match3, match2].
C4_Witness ==
    /\ last.op = "recent_matches"
    /\ last.args.limit = 2
    /\ Len(match) = 3
    /\ \A i \in 1..3 : match[i].started_at = <<i>>
    /\ Len(last.body) = 2
    /\ last.body[1].id = MatchIdStr(3)
    /\ last.body[2].id = MatchIdStr(2)

\* Number of stored Points of the scorer with this identifier string.
PointsOf(id_str) ==
    Cardinality({i \in 1..Len(point) : str(point[i].scorer_id) = id_str})

Scorers == {str(point[i].scorer_id) : i \in 1..Len(point)}

\* C5: Leaderboard with limit N returns min(N, distinct scorers) rows, one
\* per scorer, points_won being the scorer's number of stored Points, in
\* non-increasing points_won order; no scorer left out has more points than
\* one returned.
C5_Leaderboard ==
    (last.op = "leaderboard" /\ last.status = 200) =>
        LET rows == last.body
        IN  /\ Len(rows) = Min(last.args.limit, Cardinality(Scorers))
            /\ \A k \in 1..Len(rows) :
                   /\ rows[k].player_id \in Scorers
                   /\ rows[k].points_won = PointsOf(rows[k].player_id)
            /\ \A k, l \in 1..Len(rows) : k < l =>
                   /\ rows[k].player_id # rows[l].player_id
                   /\ rows[k].points_won >= rows[l].points_won
            /\ \A s \in Scorers, k \in 1..Len(rows) :
                   (\A l \in 1..Len(rows) : rows[l].player_id # s)
                       => PointsOf(s) <= rows[k].points_won

\* Two scorers with 2 and 1 points, limit 1: only the 2-point scorer.
C5_Witness ==
    /\ last.op = "leaderboard"
    /\ last.args.limit = 1
    /\ Cardinality(Scorers) = 2
    /\ Len(point) = 3
    /\ Len(last.body) = 1
    /\ last.body[1].points_won = 2

\* The players the analytics are asked for.
P1 == NewObjectId(10, 1)

P2 == NewObjectId(10, 2)

\* What Player Analytics reports as the count of a shot category.
ShotCount(id, shot) ==
    LET d == Analytics(id).shot_distribution
    IN  IF shot \in DOMAIN d THEN d[shot] ELSE 0

\* The stored matches the player is a side of.
InMatchOf(id, match_id) ==
    \E i \in 1..Len(match) :
        /\ match[i]["_id"] = match_id
        /\ (match[i].player_a_id = id \/ match[i].player_b_id = id)

\* C3 as stated: a new Point of scorer P with winner_shot "dink" adds exactly
\* 1 to the "dink" count of P's shot_distribution and changes no other
\* category; one with no winner_shot changes nothing.
C3_Original ==
    [][\A P \in {P1, P2} :
          (Len(point') = Len(point) + 1 /\ point'[Len(point')].scorer_id = P) =>
              IF "winner_shot" \notin DOMAIN point'[Len(point')]
              THEN \A k \in Shots : ShotCount(P, k)' = ShotCount(P, k)
              ELSE point'[Len(point')].winner_shot = "dink" =>
                      /\ ShotCount(P, "dink")' = ShotCount(P, "dink") + 1
                      /\ \A k \in Shots \ {"dink"} :
                             ShotCount(P, k)' = ShotCount(P, k)]_vars

\* C3 as amended: the count goes up by 1 when the Point's match_id is a
\* stored match P is a side of, and nothing changes when it is not; a Point
\* with no winner_shot changes nothing.
C3_ShotCounted ==
    [][\A P \in {P1, P2} :
          (Len(point') = Len(point) + 1 /\ point'[Len(point')].scorer_id = P) =>
              IF "winner_shot" \notin DOMAIN point'[Len(point')]
              THEN \A k \in Shots : ShotCount(P, k)' = ShotCount(P, k)
              ELSE point'[Len(point')].winner_shot = "dink" =>
                      /\ ShotCount(P, "dink")' = ShotCount(P, "dink")
                            + (IF InMatchOf(P, point'[Len(point')].match_id)
                               THEN 1 ELSE 0)
                      /\ \A k \in Shots \ {"dink"} :
                             ShotCount(P, k)' = ShotCount(P, k)]_vars

\* P1 is a side of the first match and has just scored a "dink" there, next
\* to a "lob".
C3_Witness ==
    /\ last.op = "create_point"
    /\ last.status = 200
    /\ last.args.winner_shot = "dink"
    /\ last.args.scorer_id = str(P1)
    /\ InMatchOf(P1, ObjectId(last.args.match_id).v)
    /\ ShotCount(P1, "dink") = 1
    /\ ShotCount(P1, "lob") = 1

\* C6: for a well-formed identifier that is a side of no stored match,
\* Player Analytics succeeds with zero totals, avg_rally null, an empty
\* shot_distribution and matches = 0, whatever Points are stored; the name is
\* the stored Player's, or null.
C6_NoMatches ==
    (last.op = "player_analytics" /\ ~Malformed(last.args.player_id)) =>
        /\ last.status = 200
        /\ LET id == ObjectId(last.args.player_id).v
           IN  (\A i \in 1..Len(match) :
                    match[i].player_a_id # id /\ match[i].player_b_id # id) =>
                   /\ last.body.totals.points_won = 0
                   /\ last.body.totals.points_lost = 0
                   /\ last.body.totals.avg_rally = NoneT
                   /\ DOMAIN last.body.shot_distribution = {}
                   /\ last.body.matches = 0
                   /\ \A i \in 1..Len(player) :
                          player[i]["_id"] = id => last.body.player = player[i].name
                   /\ ~Stored(id) => last.body.player = None

\* Player 1 is stored, is in no match, has scored a "dink" in a stored match
\* of others, and gets the zero summary with the name.
C6_Witness ==
    /\ last.op = "player_analytics"
    /\ last.args.player_id = str(P1)
    /\ Stored(P1)
    /\ Len(match) = 1
    /\ ~InMatchOf(P1, match[1]["_id"])
    /\ \E i \in 1..Len(point) :
           /\ point[i].scorer_id = P1
           /\ point[i].match_id = match[1]["_id"]
           /\ "winner_shot" \in DOMAIN point[i]
    /\ last.body.player = "Ann"
    /\ last.body.matches = 0

\* Sum of rally_length over the stored Points from position i on whose match
\* is one of a set.
RECURSIVE RallySum(_, _)
RallySum(i, match_ids) ==
    IF i > Len(point) THEN 0
    ELSE (IF point[i].match_id \in match_ids THEN point[i].rally_length ELSE 0)
         + RallySum(i + 1, match_ids)

\* C7: for a player P with at least one match, with M the matches P is a
\* side of: matches = |M|, points_won and points_lost count the Points of M
\* scored by P and by anyone else, and avg_rally is the mean rally_length of
\* all Points of M, null when there are none.
C7_Totals ==
    (last.op = "player_analytics" /\ last.status = 200) =>
        LET id == ObjectId(last.args.player_id).v
            M == {i \in 1..Len(match) :
                     match[i].player_a_id = id \/ match[i].player_b_id = id}
            ids == {match[i]["_id"] : i \in M}
            inM == {i \in 1..Len(point) : point[i].match_id \in ids}
            t == last.body.totals
        IN  M # {} =>
                /\ last.body.matches = Cardinality(M)
                /\ t.points_won = Cardinality({i \in inM : point[i].scorer_id = id})
                /\ t.points_lost = Cardinality({i \in inM : point[i].scorer_id # id})
                /\ t.points_won + t.points_lost = Cardinality(inM)
                /\ inM = {} <=> t.avg_rally = NoneT
                /\ inM # {} =>
                       /\ t.avg_rally[1].den > 0
                       /\ t.avg_rally[1].num * Cardinality(inM)
                              = RallySum(1, ids) * t.avg_rally[1].den

\* Player 1 on both sides of one match, one point won (rally 1) and one lost
\* (rally 4) in it: matches 1, won 1, lost 1, average 5/2.
C7_Witness ==
    /\ last.op = "player_analytics"
    /\ last.args.player_id = str(P1)
    /\ Len(match) = 1
    /\ match[1].player_a_id = P1
    /\ match[1].player_b_id = P1
    /\ last.body.matches = 1
    /\ last.body.totals.points_won = 1
    /\ last.body.totals.points_lost = 1
    /\ last.body.totals.avg_rally = <<[num |-> 5, den |-> 2]>>

HexChars == Range(HexLower) \cup Range(HexUpper)

\* A valid identifier in the native encoding: OidStrLen hexadecimal characters.
IsHexId(s) == Len(s) = OidStrLen /\ \A i \in 1..Len(s) : s[i] \in HexChars

Lower(s) ==
    [i \in 1..Len(s) |->
        IF \E k \in 1..16 : HexUpper[k] = s[i]
        THEN HexLower[CHOOSE k \in 1..16 : HexUpper[k] = s[i]]
        ELSE s[i]]

\* Hexadecimal digits and whitespace only, every unbroken run of digits of
\* even length.
HexPairs(s) ==
    /\ \A i \in 1..Len(s) : s[i] \in HexChars \cup {" "}
    /\ \A i \in 1..Len(s) :
           (s[i] # " " /\ (i = Len(s) \/ s[i + 1] = " ")) =>
               Cardinality({j \in 1..i : \A k \in j..i : s[k] # " "}) % 2 = 0

Decoded == codec.pc \in {"decoded", "encoded"}

C10_StoredPoints ==
    [][/\ \A i \in 1..Len(point') :
              /\ point'[i].rally_length \in 1..100
              /\ "winner_shot" \in DOMAIN point'[i] => point'[i].winner_shot \in Shots
       /\ last'.op = "create_point" =>
              /\ last'.args.rally_length \notin 1..100 =>
                     last'.status = 422 /\ point' = point
              /\ (/\ last'.args.rally_length \in {1, 100}
                  /\ last'.args.winner_shot \in Shots \cup {None}
                  /\ \A s \in IdArgs(last') : ~Malformed(s)) =>
                     /\ last'.status = 200
                     /\ Len(point') = Len(point) + 1
                     /\ point'[Len(point')].rally_length = last'.args.rally_length]_vars

\* A Point with rally_length 100 and no winner_shot has just been stored.
C10_Witness ==
    /\ last.op = "create_point"
    /\ last.status = 200
    /\ last.args.rally_length = 100
    /\ last.args.winner_shot = None
    /\ point[Len(point)].rally_length = 100
    /\ "winner_shot" \notin DOMAIN point[Len(point)]


====
